---- MODULE Spec2Model ----
(***************************************************************************)
(* Model of vsgXchange's GDAL ReaderWriter (src/src/gdal/GDAL.cpp):        *)
(*   - GDAL::Implementation::read(const vsg::Path&, options)               *)
(*   - GDAL::Implementation::read(const uint8_t*, size_t, options)         *)
(*   - GDAL::Implementation::read(std::istream&, options)                  *)
(*   - GDAL::getFeatures(Features&)                                        *)
(* Components are numbered from 1 in the model (component k of the code is *)
(* index k+1 of a pixel's tuple).                                          *)
(***************************************************************************)
EXTENDS Integers, Sequences, FiniteSets, TLC

VARIABLES
    \* ---- the geospatial library and the file system
    files,          \* real files: path -> content
    vsimem,         \* the /vsimem virtual file system: path -> [owner, content]
    shared,         \* the shared-dataset pool: path -> [count, ds]
    \* ---- one read call per calling thread
    pc,             \* position of the thread inside its call
    entry,          \* overload the caller invoked: "path", "buffer" or "none"
    options,        \* vsg::ref_ptr<const vsg::Options> of the call
    filename,       \* argument of the path-based read
    ptr,            \* bytes handed to the raw-buffer read
    temp_filename,  \* local of the raw-buffer read
    vsFile,         \* VSILFILE* of the raw-buffer read: "none", "open", "closed"
    filenameToUse,  \* local of the path-based read
    dataset,        \* local of the path-based read: the pool key of the open
                    \* dataset, or the empty path for a null handle
    opened,         \* content the thread saw through its dataset handle
    rasterBands,    \* local of the path-based read: indices of the usable bands
    numComponents,  \* local of the path-based read
    image,          \* local of the path-based read
    result,         \* value returned to the caller
    outcome,        \* "running", "returned", "threw", "crashed"
    \* ---- getFeatures
    fpc,            \* position inside getFeatures
    drivers,        \* the library's driver registry
    driverIndex,    \* i of the driver loop
    extensions,     \* local of getFeatures
    start_pos,      \* local of getFeatures
    extensionFeatureMap,   \* features.extensionFeatureMap

    \* ---- the stream-based read
    spc,            \* position inside the stream-based read
    fin,            \* the std::istream
    input           \* local of the stream-based read

readVars == <<files, vsimem, shared, pc, entry, options, filename, ptr,
              temp_filename, vsFile, filenameToUse, dataset, opened, rasterBands,
              numComponents, image, result, outcome>>
featureVars == <<fpc, drivers, driverIndex, extensions, start_pos, extensionFeatureMap>>
streamVars == <<spc, fin, input>>
vars == <<readVars, featureVars, streamVars>>

----------------------------------------------------------------------------
\* Bounds of the model
NumThreads == 2
MaxBands == 5
NumPixels == 2
MaxDrivers == 2
MaxExtLen == 3
MaxStreamLen == 4
\* the model's size of the 64kB buffer of line 235
BufferSize == 2

\* Program constant: "maximum of 4 raster bands supported"
MaxComponents == 4

Threads == 1..NumThreads
Pixels == 1..NumPixels

----------------------------------------------------------------------------
\* Paths: directory, stem and extension of a vsg::Path
Path(dir, stem, ext) == [dir |-> dir, stem |-> stem, ext |-> ext]
EmptyPath == Path("", "", "")
TifPath == Path(".", "f", ".tif")
MissingPath == Path(".", "missing", ".tif")
NativePath == Path(".", "scene", ".OSGB")
RealPaths == {TifPath, MissingPath, NativePath}
ExtHints == {"", ".tif", ".VSGB"}
TempPath(hint) == Path("/vsimem", "temp", hint)
VirtualPaths == {TempPath(h) : h \in ExtHints}
AllPaths == RealPaths \cup VirtualPaths

lowerCaseFileExtension(path) ==
    CASE path.ext = ".OSGB" -> ".osgb"
      [] path.ext = ".VSGB" -> ".vsgb"
      [] OTHER -> path.ext

filePath(path) == path.dir

NativeExtensions == {".vsgb", ".vsgt", ".osgb", ".osgt", ".osg", ".tile"}

\* vsg::findFile: the path when the file exists, else the empty path
findFile(path, fs) == IF fs[path].kind # "none" THEN path ELSE EmptyPath

----------------------------------------------------------------------------
\* Datasets
Types == {"GDT_Byte", "GDT_Float32"}
ColorInterps == {"GCI_Undefined", "GCI_GrayIndex"}

NullString == [null |-> TRUE, chars |-> <<>>]
String(chars) == [null |-> FALSE, chars |-> chars]
strlen(s) == Len(s.chars)
Projections == {NullString, String(<<>>), String(<<"W", "G", "S">>)}

NoGeoTransform == [err |-> "CE_Failure", values |-> <<1, 0, 0, 0, 0, 1>>]
SomeGeoTransform == [err |-> "CE_None", values |-> <<100, 2, 0, 200, 0, -2>>]
GeoTransforms == {NoGeoTransform, SomeGeoTransform}

\* the raster of band i: a value per pixel, different for every band and pixel
BandData(i) == [p \in Pixels |-> 10 * i + p]

Band(i, type, ci) == [type |-> type, colorInterp |-> ci, data |-> BandData(i)]

Dataset(tags, proj, geo) ==
    [kind |-> "raster",
     bands |-> [i \in DOMAIN tags |-> Band(i, tags[i][1], tags[i][2])],
     projection |-> proj, geoTransform |-> geo,
     metadata |-> {"AREA_OR_POINT"}]

NoFile == [kind |-> "none", bands |-> <<>>, projection |-> NullString,
           geoTransform |-> NoGeoTransform, metadata |-> {}]
Garbage == [NoFile EXCEPT !.kind = "garbage"]

BandTags(n) == [1..n -> Types \X ColorInterps]

\* datasets of the concurrent specifications: one, three and five usable bands
SmallDatasets ==
    { Dataset([i \in 1..n |-> <<"GDT_Byte", "GCI_GrayIndex">>],
              String(<<"W", "G", "S">>), SomeGeoTransform) : n \in {1, 3, MaxBands} }

----------------------------------------------------------------------------
\* Options
NoOptions == [null |-> TRUE]
Options(hints) ==
    { [null |-> FALSE, mapRGBtoRGBAHint |-> m, extensionHint |-> h] :
        m \in BOOLEAN, h \in hints }

----------------------------------------------------------------------------
\* The image object model
NullObject == [null |-> TRUE]

DefaultFill == <<0, 0, 0, 1>>

\* vsgXchange::createImage2D: every pixel holds the first numComponents
\* values of def; no image for a component count outside 1..4
createImage2D(width, height, n, dataType, def) ==
    IF n \in 1..MaxComponents
    THEN [null |-> FALSE, width |-> width, height |-> height,
          numComponents |-> n, dataType |-> dataType,
          data |-> [p \in 1..(width * height) |-> [c \in 1..n |-> def[c]]],
          meta |-> <<>>]
    ELSE NullObject

\* vsgXchange::copyRasterBandToImage: the band's raster into one component
copyRasterBandToImage(band, img, component) ==
    [img EXCEPT !.data = [p \in DOMAIN img.data |->
                            [img.data[p] EXCEPT ![component + 1] = band.data[p]]]]

\* vsg::Object::setValue / setObject: one keyed attachment, replaced if present
setObject(img, key, value) ==
    [img EXCEPT !.meta = [k \in (DOMAIN img.meta) \cup {key} |->
                            IF k = key THEN value ELSE img.meta[k]]]

RECURSIVE AttachAll(_, _)
AttachAll(img, keys) ==
    IF keys = {} THEN img
    ELSE LET k == CHOOSE x \in keys : TRUE
         IN AttachAll(setObject(img, k, "library value"), keys \ {k})

\* vsgXchange::assignMetaData: the dataset's own metadata items, whose names
\* are the library's and differ from "ProjectionRef" and "GeoTransform"
assignMetaData(ds, img) == AttachAll(img, ds.metadata)

----------------------------------------------------------------------------
\* The dataset-to-image translation, lines 141-220

\* vsgXchange::dataTypes: the pixel types of all bands
dataTypes(ds) == { ds.bands[i].type : i \in DOMAIN ds.bands }

\* MixedTypes with an off-by-one fault: two types pass the test
MixedTypesOffByOne(types) == Cardinality(types) > 2

\* line 142
MixedTypes(types) == Cardinality(types) > 1

\* UsableBands with a fault: the GCI_Undefined test is missing
UsableBandsUnfiltered(ds, i) == [j \in 1..Len(ds.bands) |-> j]

\* lines 160-174: the bands not tagged GCI_Undefined, in band order
RECURSIVE UsableBands(_, _)
UsableBands(ds, i) ==
    IF i > Len(ds.bands) THEN <<>>
    ELSE IF ds.bands[i].colorInterp # "GCI_Undefined"
         THEN <<i>> \o UsableBands(ds, i + 1)
         ELSE UsableBands(ds, i + 1)

\* mapRGBtoRGBAHint with a fault: no default for a missing configuration
mapRGBtoRGBAHintNoDefault(opt) == ~opt.null /\ opt.mapRGBtoRGBAHint

\* line 183
mapRGBtoRGBAHint(opt) == opt.null \/ opt.mapRGBtoRGBAHint

\* lines 184-188
Promote(opt, n) == IF mapRGBtoRGBAHint(opt) /\ n = 3 THEN 4 ELSE n

\* line 190
TooManyBands(n) == n > MaxComponents

\* lines 202-205
RECURSIVE CopyBands(_, _, _, _)
CopyBands(ds, bands, img, component) ==
    IF component >= Len(bands) THEN img
    ELSE CopyBands(ds, bands,
                   copyRasterBandToImage(ds.bands[bands[component + 1]], img, component),
                   component + 1)

\* HasProjection with a fault: the strlen test is missing
HasProjectionNoLength(ds) == ~ds.projection.null

\* line 209
HasProjection(ds) == ~ds.projection.null /\ strlen(ds.projection) > 0

\* lines 209-212
AttachProjection(ds, img) ==
    IF HasProjection(ds)
    THEN setObject(img, "ProjectionRef", ds.projection.chars)
    ELSE img

\* lines 214-218
AttachGeoTransform(ds, img) ==
    IF ds.geoTransform.err = "CE_None"
    THEN setObject(img, "GeoTransform", ds.geoTransform.values)
    ELSE img

----------------------------------------------------------------------------
\* The shared-dataset pool (vsgXchange::openSharedDataSet)
StoredContent(path) ==
    IF path \in VirtualPaths THEN vsimem[path].content ELSE files[path]

\* the content a shared open of path hands out: the pooled dataset when one
\* is open, else what the path holds now
SharedContent(path) ==
    IF shared[path].count > 0 THEN shared[path].ds ELSE StoredContent(path)

Acquire(path) ==
    [shared EXCEPT ![path] = [count |-> @.count + 1, ds |-> SharedContent(path)]]

Release(path) ==
    [shared EXCEPT ![path] = IF @.count = 1 THEN [count |-> 0, ds |-> NoFile]
                             ELSE [@ EXCEPT !.count = @ - 1]]

----------------------------------------------------------------------------
\* Where a finished path-based read goes: back into the raw-buffer read, or
\* to the caller
ReturnPc(t) == IF entry[t] = "buffer" THEN "close" ELSE "done"
ReturnOutcome(t) == IF entry[t] = "buffer" THEN "running" ELSE "returned"

\* return {} before the dataset is opened (lines 127, 131, 138)
ReturnEmpty(t) ==
    /\ result' = [result EXCEPT ![t] = NullObject]
    /\ pc' = [pc EXCEPT ![t] = ReturnPc(t)]
    /\ outcome' = [outcome EXCEPT ![t] = ReturnOutcome(t)]

\* the local `dataset` goes out of scope: its reference is given back
DatasetScopeExit(t) ==
    /\ shared' = Release(dataset[t])
    /\ dataset' = [dataset EXCEPT ![t] = EmptyPath]

\* RejectReturn with a fault: the reference taken at line 135 is not given back
RejectReturnLeak(t) ==
    /\ ReturnEmpty(t)
    /\ dataset' = [dataset EXCEPT ![t] = EmptyPath]
    /\ UNCHANGED shared

\* return {} with the dataset open (lines 149, 155, 180, 193, 200)
RejectReturn(t) ==
    /\ ReturnEmpty(t)
    /\ DatasetScopeExit(t)

\* lines 126-131
ResolvePath(t) ==
    /\ pc[t] = "resolve"
    /\ LET ext == lowerCaseFileExtension(filename[t])
           resolved == IF filePath(filename[t]) = "/vsimem" THEN filename[t]
                       ELSE findFile(filename[t], files)
       IN IF ext \in NativeExtensions
          THEN /\ ReturnEmpty(t)
               /\ UNCHANGED filenameToUse
          ELSE /\ filenameToUse' = [filenameToUse EXCEPT ![t] = resolved]
               /\ IF resolved = EmptyPath
                  THEN ReturnEmpty(t)
                  ELSE /\ pc' = [pc EXCEPT ![t] = "open"]
                       /\ UNCHANGED <<result, outcome>>
    /\ UNCHANGED <<files, vsimem, shared, entry, options, filename, ptr,
                   temp_filename, vsFile, dataset, opened, rasterBands,
                   numComponents, image>>
    /\ UNCHANGED <<featureVars, streamVars>>

\* lines 133-139
OpenDataset(t) ==
    /\ pc[t] = "open"
    /\ IF SharedContent(filenameToUse[t]).kind = "raster"
       THEN /\ shared' = Acquire(filenameToUse[t])
            /\ dataset' = [dataset EXCEPT ![t] = filenameToUse[t]]
            /\ opened' = [opened EXCEPT ![t] = SharedContent(filenameToUse[t])]
            /\ pc' = [pc EXCEPT ![t] = "validate"]
            /\ UNCHANGED <<result, outcome>>
       ELSE /\ ReturnEmpty(t)
            /\ UNCHANGED <<shared, dataset, opened>>
    /\ UNCHANGED <<files, vsimem, entry, options, filename, ptr, temp_filename,
                   vsFile, filenameToUse, rasterBands, numComponents, image>>
    /\ UNCHANGED <<featureVars, streamVars>>

\* lines 141-194
ValidateBands(t) ==
    /\ pc[t] = "validate"
    /\ LET ds == opened[t]
           types == dataTypes(ds)
           bands == UsableBands(ds, 1)
           n == Promote(options[t], Len(bands))
       IN IF MixedTypes(types) \/ types = {} \/ Len(bands) = 0 \/ TooManyBands(n)
          THEN /\ RejectReturn(t)
               /\ UNCHANGED <<rasterBands, numComponents>>
          ELSE /\ rasterBands' = [rasterBands EXCEPT ![t] = bands]
               /\ numComponents' = [numComponents EXCEPT ![t] = n]
               /\ pc' = [pc EXCEPT ![t] = "create"]
               /\ UNCHANGED <<shared, dataset, result, outcome>>
    /\ UNCHANGED <<files, filenameToUse, vsimem, entry, options, filename, ptr,
                   temp_filename, vsFile, opened, image>>
    /\ UNCHANGED <<featureVars, streamVars>>

\* lines 196-200
CreateImage(t) ==
    /\ pc[t] = "create"
    /\ LET ds == opened[t]
           dataType == CHOOSE ty \in dataTypes(ds) : TRUE
           img == createImage2D(NumPixels, 1, numComponents[t], dataType, DefaultFill)
       IN /\ image' = [image EXCEPT ![t] = img]
          /\ IF img.null
             THEN RejectReturn(t)
             ELSE /\ pc' = [pc EXCEPT ![t] = "copy"]
                  /\ UNCHANGED <<shared, dataset, result, outcome>>
    /\ UNCHANGED <<files, filenameToUse, vsimem, entry, options, filename, ptr,
                   temp_filename, vsFile, opened, rasterBands, numComponents>>
    /\ UNCHANGED <<featureVars, streamVars>>

\* line 199, the allocation of the pixel buffer fails: std::bad_alloc leaves
\* the path-based read and, uncaught, the raw-buffer read that called it
AllocationFails(t) ==
    /\ pc[t] = "create"
    /\ DatasetScopeExit(t)
    /\ pc' = [pc EXCEPT ![t] = "done"]
    /\ outcome' = [outcome EXCEPT ![t] = "threw"]
    /\ UNCHANGED <<files, filenameToUse, vsimem, entry, options, filename, ptr,
                   temp_filename, vsFile, opened, rasterBands, numComponents, image, result>>
    /\ UNCHANGED <<featureVars, streamVars>>

\* lines 202-220
CopyAndAttach(t) ==
    /\ pc[t] = "copy"
    /\ LET ds == opened[t]
           copied == CopyBands(ds, rasterBands[t], image[t], 0)
           withMeta == assignMetaData(ds, copied)
           withProj == AttachProjection(ds, withMeta)
           final == AttachGeoTransform(ds, withProj)
       IN /\ image' = [image EXCEPT ![t] = final]
          /\ result' = [result EXCEPT ![t] = final]
    /\ DatasetScopeExit(t)
    /\ pc' = [pc EXCEPT ![t] = ReturnPc(t)]
    /\ outcome' = [outcome EXCEPT ![t] = ReturnOutcome(t)]
    /\ UNCHANGED <<files, filenameToUse, vsimem, entry, options, filename, ptr,
                   temp_filename, vsFile, opened, rasterBands, numComponents>>
    /\ UNCHANGED <<featureVars, streamVars>>

\* GDAL::Implementation::read(const vsg::Path&, options), one step of it
PathRead(t) ==
    \/ ResolvePath(t)
    \/ OpenDataset(t)
    \/ ValidateBands(t)
    \/ CreateImage(t)
    \/ AllocationFails(t)
    \/ CopyAndAttach(t)

----------------------------------------------------------------------------
\* GDAL::Implementation::read(const uint8_t*, size_t, options)

\* lines 249-255: the virtual file's name, VSIFileFromMemBuffer (a file of
\* that name is replaced) and the call of the path-based read
RegisterVirtualFile(t, hint) ==
    /\ temp_filename' = [temp_filename EXCEPT ![t] = TempPath(hint)]
    /\ vsimem' = [vsimem EXCEPT ![TempPath(hint)] = [owner |-> t, content |-> ptr[t]]]
    /\ vsFile' = [vsFile EXCEPT ![t] = "open"]
    /\ filename' = [filename EXCEPT ![t] = TempPath(hint)]
    /\ pc' = [pc EXCEPT ![t] = "resolve"]
    /\ UNCHANGED outcome

BufferRead(t) ==
    /\ pc[t] = "buffer"
    /\ ~options[t].null
    /\ RegisterVirtualFile(t, options[t].extensionHint)
    /\ UNCHANGED <<files, filenameToUse, shared, entry, options, ptr, dataset,
                   opened, rasterBands, numComponents, image, result>>
    /\ UNCHANGED <<featureVars, streamVars>>

\* line 250 with no configuration object: options-> dereferences a null
\* ref_ptr, which is undefined
NullOptionsDereference(t) ==
    /\ pc[t] = "buffer"
    /\ options[t].null
    /\ pc' = [pc EXCEPT ![t] = "undefined"]
    /\ UNCHANGED <<files, filenameToUse, vsimem, shared, entry, options, filename,
                   ptr, temp_filename, vsFile, dataset, opened, rasterBands,
                   numComponents, image, result, outcome>>
    /\ UNCHANGED <<featureVars, streamVars>>

\* what the undefined read of line 250 can turn into: the process dies, or
\* the call goes on with whatever it read as the hint
UndefinedBehaviour(t) ==
    /\ pc[t] = "undefined"
    /\ \/ /\ pc' = [pc EXCEPT ![t] = "done"]
          /\ outcome' = [outcome EXCEPT ![t] = "crashed"]
          /\ UNCHANGED <<temp_filename, vsimem, vsFile, filename>>
       \/ \E hint \in ExtHints : RegisterVirtualFile(t, hint)
    /\ UNCHANGED <<files, filenameToUse, shared, entry, options, ptr, dataset,
                   opened, rasterBands, numComponents, image, result>>
    /\ UNCHANGED <<featureVars, streamVars>>

\* lines 257-259: VSIFCloseL closes the handle (the name stays in /vsimem)
CloseVirtualFile(t) ==
    /\ pc[t] = "close"
    /\ vsFile' = [vsFile EXCEPT ![t] = "closed"]
    /\ pc' = [pc EXCEPT ![t] = "done"]
    /\ outcome' = [outcome EXCEPT ![t] = "returned"]
    /\ UNCHANGED <<files, filenameToUse, vsimem, shared, entry, options, filename,
                   ptr, temp_filename, dataset, opened, rasterBands, numComponents,
                   image, result>>
    /\ UNCHANGED <<featureVars, streamVars>>

----------------------------------------------------------------------------
\* Initial states
InitFeaturesIdle ==
    /\ fpc = "idle" /\ drivers = <<>> /\ driverIndex = 0 /\ extensions = <<>>
    /\ start_pos = 0 /\ extensionFeatureMap = <<>>

InitStreamIdle ==
    /\ spc = "idle" /\ fin = <<>> /\ input = <<>>

NoCall == [pc |-> "done", entry |-> "none", options |-> NoOptions,
           filename |-> EmptyPath, ptr |-> NoFile]

PathCalls(names, opts) ==
    { [pc |-> "resolve", entry |-> "path", options |-> o, filename |-> f,
       ptr |-> NoFile] : f \in names, o \in opts }

InitCalls(calls) ==
    /\ pc = [t \in Threads |-> calls[t].pc]
    /\ entry = [t \in Threads |-> calls[t].entry]
    /\ options = [t \in Threads |-> calls[t].options]
    /\ filename = [t \in Threads |-> calls[t].filename]
    /\ ptr = [t \in Threads |-> calls[t].ptr]
    /\ temp_filename = [t \in Threads |-> EmptyPath]
    /\ vsFile = [t \in Threads |-> "none"]
    /\ filenameToUse = [t \in Threads |-> EmptyPath]
    /\ dataset = [t \in Threads |-> EmptyPath]
    /\ opened = [t \in Threads |-> NoFile]
    /\ rasterBands = [t \in Threads |-> <<>>]
    /\ numComponents = [t \in Threads |-> 0]
    /\ image = [t \in Threads |-> NullObject]
    /\ result = [t \in Threads |-> NullObject]
    /\ outcome = [t \in Threads |-> IF calls[t].entry = "none" THEN "none" ELSE "running"]
    /\ vsimem = [p \in VirtualPaths |-> [owner |-> 0, content |-> NoFile]]
    /\ shared = [p \in AllPaths |-> [count |-> 0, ds |-> NoFile]]

InitFiles(ds) ==
    files = [p \in RealPaths |-> CASE p = TifPath -> ds
                                   [] p = NativePath -> Garbage
                                   [] OTHER -> NoFile]

\* One path-based read of one file, over every dataset
InitRead ==
    /\ \E n \in 0..MaxBands :
          \E tags \in BandTags(n), proj \in Projections, geo \in GeoTransforms :
              InitFiles(Dataset(tags, proj, geo))
    /\ \E c \in PathCalls({TifPath}, {NoOptions} \cup Options({""})) :
          InitCalls([t \in Threads |-> IF t = 1 THEN c ELSE NoCall])
    /\ InitFeaturesIdle
    /\ InitStreamIdle

NextRead == \E t \in Threads : PathRead(t)

SpecRead == InitRead /\ [][NextRead]_vars

\* Concurrent path-based reads of the files
InitShared ==
    /\ \E ds \in SmallDatasets \cup {Garbage} : InitFiles(ds)
    /\ \E calls \in [Threads -> PathCalls(RealPaths, {NoOptions} \cup Options({""}))] :
          InitCalls(calls)
    /\ InitFeaturesIdle
    /\ InitStreamIdle

SpecShared == InitShared /\ [][NextRead]_vars

BufferCalls(contents, opts) ==
    { [pc |-> "buffer", entry |-> "buffer", options |-> o, filename |-> EmptyPath,
       ptr |-> b] : b \in contents, o \in opts }

\* Concurrent calls of both overloads
Init ==
    /\ \E ds \in SmallDatasets : InitFiles(ds)
    /\ \E calls \in [Threads ->
                        PathCalls(RealPaths, {NoOptions})
                        \cup BufferCalls(SmallDatasets \cup {Garbage},
                                         {NoOptions} \cup Options(ExtHints))] :
          InitCalls(calls)
    /\ InitFeaturesIdle
    /\ InitStreamIdle

Next ==
    \E t \in Threads :
        \/ PathRead(t)
        \/ BufferRead(t)
        \/ NullOptionsDereference(t)
        \/ UndefinedBehaviour(t)
        \/ CloseVirtualFile(t)

Spec == Init /\ [][Next]_vars

----------------------------------------------------------------------------
\* GDAL::getFeatures, lines 66-113.  Strings are sequences of characters;
\* positions count from 0 as in std::string.
npos == -1

Min(a, b) == IF a < b THEN a ELSE b

find_first_not_of(str, chars, pos) ==
    LET hits == { k \in pos..(Len(str) - 1) : str[k + 1] \notin chars }
    IN IF hits = {} THEN npos ELSE CHOOSE k \in hits : \A j \in hits : k <= j

find_first_of(str, chars, pos) ==
    LET hits == { k \in pos..(Len(str) - 1) : str[k + 1] \in chars }
    IN IF hits = {} THEN npos ELSE CHOOSE k \in hits : \A j \in hits : k <= j

substr(str, pos, count) ==
    IF count = npos THEN SubSeq(str, pos + 1, Len(str))
    ELSE SubSeq(str, pos + 1, Min(pos + count, Len(str)))

\* line 75 and lines 98, 105: features.extensionFeatureMap[dotPrefix + ext] = mask
dotPrefix == <<".">>
rasterFeatureMask == "READ_FILENAME"
Record(map, ext) ==
    [k \in (DOMAIN map) \cup {dotPrefix \o ext} |->
        IF k = dotPrefix \o ext THEN rasterFeatureMask ELSE map[k]]

ExtChars == {"a", "b", " ", "/", "."}
RECURSIVE StringsOfLen(_)
StringsOfLen(n) ==
    IF n = 0 THEN {<<>>}
    ELSE { Append(str, c) : str \in StringsOfLen(n - 1), c \in ExtChars }
ExtensionLists == UNION { StringsOfLen(n) : n \in 0..MaxExtLen }

\* a driver: whether GDAL_DCAP_RASTER is set, and its GDAL_DMD_EXTENSIONS
Drivers ==
    { [raster_meta |-> TRUE, extensions_meta |-> String(e)] : e \in ExtensionLists }
    \cup { [raster_meta |-> TRUE, extensions_meta |-> NullString],
           [raster_meta |-> FALSE, extensions_meta |-> String(<<"a">>)] }

\* lines 68-75
GetFeaturesBegin ==
    /\ fpc = "begin"
    /\ fpc' = "driver"
    /\ driverIndex' = 0
    /\ UNCHANGED <<drivers, extensions, start_pos, extensionFeatureMap>>
    /\ UNCHANGED <<readVars, streamVars>>

\* lines 77-88: the next driver of the loop, or the end of the loop
NextDriver ==
    /\ fpc = "driver"
    /\ IF driverIndex < Len(drivers)
       THEN LET driver == drivers[driverIndex + 1]
            IN IF driver.raster_meta /\ ~driver.extensions_meta.null
               THEN /\ extensions' = driver.extensions_meta.chars
                    /\ start_pos' = 0
                    /\ fpc' = "token"
                    /\ UNCHANGED driverIndex
               ELSE /\ driverIndex' = driverIndex + 1
                    /\ UNCHANGED <<fpc, extensions, start_pos>>
       ELSE /\ fpc' = "done"
            /\ UNCHANGED <<driverIndex, extensions, start_pos>>
    /\ UNCHANGED <<drivers, extensionFeatureMap>>
    /\ UNCHANGED <<readVars, streamVars>>

\* the loop of lines 89-108 is left: on to the next driver
BreakLoop ==
    /\ fpc' = "driver"
    /\ driverIndex' = driverIndex + 1

\* lines 91-107: one iteration of for (;;)
TokenStep ==
    /\ fpc = "token"
    /\ LET start == find_first_not_of(extensions, {" ", "."}, start_pos)
           delimiter_pos == find_first_of(extensions, {" ", "/"}, start)
       IN IF start = npos
          THEN /\ BreakLoop
               /\ start_pos' = start
               /\ UNCHANGED extensionFeatureMap
          ELSE IF delimiter_pos # npos
          THEN /\ extensionFeatureMap' =
                     Record(extensionFeatureMap,
                            substr(extensions, start, delimiter_pos - start))
               /\ start_pos' = delimiter_pos + 1
               /\ IF delimiter_pos + 1 = Len(extensions)
                  THEN BreakLoop
                  ELSE UNCHANGED <<fpc, driverIndex>>
          ELSE /\ extensionFeatureMap' =
                     Record(extensionFeatureMap, substr(extensions, start, npos))
               /\ start_pos' = start
               /\ BreakLoop
    /\ UNCHANGED <<drivers, extensions>>
    /\ UNCHANGED <<readVars, streamVars>>

InitNoCalls ==
    /\ InitFiles(NoFile)
    /\ InitCalls([t \in Threads |-> NoCall])

InitFeatures ==
    /\ fpc = "begin"
    /\ \E n \in 0..MaxDrivers : drivers \in [1..n -> Drivers]
    /\ driverIndex = 0 /\ extensions = <<>> /\ start_pos = 0
    /\ extensionFeatureMap = <<>>
    /\ InitNoCalls
    /\ InitStreamIdle

NextFeatures == GetFeaturesBegin \/ NextDriver \/ TokenStep

SpecFeatures == InitFeatures /\ [][NextFeatures]_vars

----------------------------------------------------------------------------
\* GDAL::Implementation::read(std::istream&, options), lines 223-245.
\* A stream: its bytes, the read position, the state flags (failbit may be
\* set before the call, as for a file that failed to open), whether it is a
\* std::stringstream, and the position at which its buffer throws (npos:
\* never).
Bytes == {"x", "y"}
RECURSIVE ByteStrings(_)
ByteStrings(n) ==
    IF n = 0 THEN {<<>>}
    ELSE { Append(str, c) : str \in ByteStrings(n - 1), c \in Bytes }
StreamContents == UNION { ByteStrings(n) : n \in 0..MaxStreamLen }

Streams ==
    { [data |-> d, pos |-> 0, eofbit |-> FALSE, failbit |-> f, badbit |-> FALSE,
       stringstream |-> ss, breaksAt |-> b] :
        d \in StreamContents, f \in BOOLEAN, ss \in BOOLEAN,
        b \in {npos} \cup 0..MaxStreamLen }

good(stream) == ~stream.eofbit /\ ~stream.failbit /\ ~stream.badbit

\* the characters std::istream::read(buffer, count) extracts
Extracted(stream, count) ==
    IF ~good(stream) THEN 0
    ELSE LET limit == IF stream.breaksAt # npos /\ stream.breaksAt >= stream.pos
                      THEN Min(Len(stream.data), stream.breaksAt)
                      ELSE Len(stream.data)
         IN Min(count, limit - stream.pos)

\* std::istream::read(buffer, count): a stream that is not good only gets
\* failbit; a read that breaks gets badbit, one cut short by the end gets
\* eofbit and failbit
istream_read(stream, count) ==
    IF ~good(stream) THEN [stream EXCEPT !.failbit = TRUE]
    ELSE LET got == Extracted(stream, count)
             broke == /\ got < count
                      /\ stream.breaksAt # npos
                      /\ stream.breaksAt >= stream.pos
                      /\ stream.pos + got = stream.breaksAt
                      /\ stream.breaksAt < Len(stream.data)
         IN [stream EXCEPT !.pos = @ + got,
                           !.badbit = broke,
                           !.eofbit = (got < count /\ ~broke),
                           !.failbit = (got < count /\ ~broke)]

\* lines 227-232: the dynamic_cast, and the whole buffer of a stringstream
StreamBegin ==
    /\ spc = "begin"
    /\ IF fin.stringstream
       THEN /\ input' = fin.data
            /\ spc' = "delegate"
       ELSE /\ input' = <<>>
            /\ spc' = "while"
    /\ UNCHANGED fin
    /\ UNCHANGED <<readVars, featureVars>>

\* line 236: while (!fin.eof())
LoopTest ==
    /\ spc = "while"
    /\ spc' = IF ~fin.eofbit THEN "read" ELSE "delegate"
    /\ UNCHANGED <<fin, input>>
    /\ UNCHANGED <<readVars, featureVars>>

\* lines 238-240: one chunk
ReadChunk ==
    /\ spc = "read"
    /\ LET bytes_readed == Extracted(fin, BufferSize)
       IN input' = input \o SubSeq(fin.data, fin.pos + 1, fin.pos + bytes_readed)
    /\ fin' = istream_read(fin, BufferSize)
    /\ spc' = "while"
    /\ UNCHANGED <<readVars, featureVars>>

\* line 244: the raw-buffer read is called with the bytes of input
Delegate ==
    /\ spc = "delegate"
    /\ spc' = "done"
    /\ UNCHANGED <<fin, input>>
    /\ UNCHANGED <<readVars, featureVars>>

InitStream ==
    /\ spc = "begin"
    /\ fin \in Streams
    /\ input = <<>>
    /\ InitNoCalls
    /\ InitFeaturesIdle

NextStream == StreamBegin \/ LoopTest \/ ReadChunk \/ Delegate

\* the calling thread keeps running: a step that can be taken is taken
SpecStream == InitStream /\ [][NextStream]_vars /\ WF_vars(NextStream)

----------------------------------------------------------------------------
\* Vocabulary of the properties: what a dataset offers, stated on the
\* dataset itself
UsableSet(ds) == { i \in DOMAIN ds.bands : ds.bands[i].colorInterp # "GCI_Undefined" }
UsableCount(ds) == Cardinality(UsableSet(ds))
TypeCount(ds) == Cardinality({ ds.bands[i].type : i \in DOMAIN ds.bands })
NthUsable(ds, k) ==
    CHOOSE i \in UsableSet(ds) : Cardinality({ j \in UsableSet(ds) : j < i }) = k - 1
SourceOf(t) == files[filename[t]]
PathReadOfRaster(t) == entry[t] = "path" /\ SourceOf(t).kind = "raster"
Returned(t) == pc[t] = "done" /\ outcome[t] = "returned"
PromotionOn(t) == options[t].null \/ options[t].mapRGBtoRGBAHint
Unsupported(ds) == UsableCount(ds) = 0 \/ TypeCount(ds) >= 2 \/ UsableCount(ds) > 4

\* C1: the path-based read of a dataset with no usable band, with two or more
\* pixel types, or with more than four usable bands never creates an image
\* and never throws, and it ends by returning the null result, with the
\* promotion hint on or off.
C1_UnsupportedRejected ==
    \A t \in Threads :
        (PathReadOfRaster(t) /\ Unsupported(SourceOf(t)))
            => /\ image[t] = NullObject
               /\ outcome[t] # "threw"
               /\ pc[t] \notin {"create", "copy"}
               /\ (pc[t] = "done" => outcome[t] = "returned" /\ result[t] = NullObject)

\* a read of more than four usable bands of one type, hint off, has returned
C1_Witness ==
    \E t \in Threads :
        /\ PathReadOfRaster(t) /\ Returned(t)
        /\ UsableCount(SourceOf(t)) > 4 /\ TypeCount(SourceOf(t)) = 1
        /\ ~PromotionOn(t)
        /\ result[t] = NullObject

\* C2: a returned read of a one-type dataset with exactly three usable bands,
\* promotion enabled (hint set or no configuration), yields a 4-component
\* image: components 1..3 hold the usable bands in band order at every
\* pixel, component 4 holds the fill alpha 1 and no band's data.
C2_PromotedRGBA ==
    \A t \in Threads :
        (PathReadOfRaster(t) /\ Returned(t) /\ TypeCount(SourceOf(t)) = 1
         /\ UsableCount(SourceOf(t)) = 3 /\ PromotionOn(t))
            => /\ ~result[t].null
               /\ result[t].numComponents = 4
               /\ \A p \in Pixels :
                    /\ Len(result[t].data[p]) = 4
                    /\ \A k \in 1..3 :
                         result[t].data[p][k]
                            = SourceOf(t).bands[NthUsable(SourceOf(t), k)].data[p]
                    /\ result[t].data[p][4] = 1
                    /\ \A i \in DOMAIN SourceOf(t).bands :
                         result[t].data[p][4] # SourceOf(t).bands[i].data[p]

\* three usable bands among more, no configuration object, has returned
C2_Witness ==
    \E t \in Threads :
        /\ PathReadOfRaster(t) /\ Returned(t)
        /\ TypeCount(SourceOf(t)) = 1 /\ UsableCount(SourceOf(t)) = 3
        /\ Len(SourceOf(t).bands) > 3
        /\ options[t].null
        /\ ~result[t].null

\* C3: a returned read of a one-type dataset with n usable bands, n in
\* {1, 2, 4}, yields an image of n components and of the dataset's type,
\* whatever the hint and the undefined bands in between; the i-th usable
\* band is component i.
C3_ComponentsFollowBands ==
    \A t \in Threads :
        (PathReadOfRaster(t) /\ Returned(t) /\ TypeCount(SourceOf(t)) = 1
         /\ UsableCount(SourceOf(t)) \in {1, 2, 4})
            => /\ ~result[t].null
               /\ result[t].numComponents = UsableCount(SourceOf(t))
               /\ \A i \in DOMAIN SourceOf(t).bands :
                    result[t].dataType = SourceOf(t).bands[i].type
               /\ \A p \in Pixels :
                    /\ Len(result[t].data[p]) = UsableCount(SourceOf(t))
                    /\ \A k \in 1..UsableCount(SourceOf(t)) :
                         result[t].data[p][k]
                            = SourceOf(t).bands[NthUsable(SourceOf(t), k)].data[p]

\* four usable bands after a leading undefined one, hint on, has returned
C3_Witness ==
    \E t \in Threads :
        /\ PathReadOfRaster(t) /\ Returned(t)
        /\ TypeCount(SourceOf(t)) = 1 /\ UsableCount(SourceOf(t)) = 4
        /\ Len(SourceOf(t).bands) = 5
        /\ SourceOf(t).bands[1].colorInterp = "GCI_Undefined"
        /\ PromotionOn(t)
        /\ ~result[t].null

BufferCall(t) == entry[t] = "buffer"
NoExtensionHint(t) == options[t].null \/ options[t].extensionHint = ""
InsideBufferRead(t) == BufferCall(t) /\ vsFile[t] = "open" /\ pc[t] # "done"
HoldsDataset(t) == pc[t] \in {"validate", "create", "copy"}

\* C4: once a raw-buffer read has ended, by returning an image, by returning
\* empty or by an exception, the virtual file it registered is closed.
C4_VirtualFileClosed ==
    \A t \in Threads : (BufferCall(t) /\ pc[t] = "done") => vsFile[t] # "open"

\* C5: a raw-buffer read without an extension hint (no configuration, or an
\* empty hint) registers no virtual file, opens no dataset and ends in
\* failure.
C5_MissingHintFails ==
    \A t \in Threads :
        (BufferCall(t) /\ NoExtensionHint(t))
            => /\ vsFile[t] = "none"
               /\ ~HoldsDataset(t)
               /\ (pc[t] = "done" => result[t] = NullObject)

\* C6: two raw-buffer reads running at the same time use different virtual
\* paths, and each opens the bytes it registered itself.
C6_UniqueVirtualPaths ==
    /\ \A t1, t2 \in Threads :
          (t1 # t2 /\ InsideBufferRead(t1) /\ InsideBufferRead(t2))
              => temp_filename[t1] # temp_filename[t2]
    /\ \A t \in Threads :
          (BufferCall(t) /\ HoldsDataset(t)) => opened[t] = ptr[t]

\* Vocabulary of the shared-handle property
Holders(path) == { t \in Threads : HoldsDataset(t) /\ dataset[t] = path }
AllEnded == \A t \in Threads : pc[t] = "done"

\* the image a path-based read of a dataset yields when nothing else runs
AloneResult(ds, opt) ==
    IF ds.kind # "raster" \/ Unsupported(ds) THEN NullObject
    ELSE LET n == UsableCount(ds)
             m == IF n = 3 /\ (opt.null \/ opt.mapRGBtoRGBAHint) THEN 4 ELSE n
             keys == ds.metadata
                     \cup (IF ~ds.projection.null /\ ds.projection.chars # <<>>
                           THEN {"ProjectionRef"} ELSE {})
                     \cup (IF ds.geoTransform.err = "CE_None"
                           THEN {"GeoTransform"} ELSE {})
         IN [null |-> FALSE, width |-> NumPixels, height |-> 1,
             numComponents |-> m,
             dataType |-> ds.bands[NthUsable(ds, 1)].type,
             data |-> [p \in Pixels |->
                         [c \in 1..m |-> IF c <= n
                                         THEN ds.bands[NthUsable(ds, c)].data[p]
                                         ELSE DefaultFill[c]]],
             meta |-> [k \in keys |->
                         CASE k = "ProjectionRef" -> ds.projection.chars
                           [] k = "GeoTransform" -> ds.geoTransform.values
                           [] OTHER -> "library value"]]

\* C7: with path-based reads running concurrently, every returned read
\* returns what it would return alone, every handle a read holds is counted
\* in the pool and open, and once all calls have ended the pool's reference
\* counts are back at zero.
C7_SharedHandleBalanced ==
    /\ \A t \in Threads :
          (entry[t] = "path" /\ Returned(t))
              => result[t] = AloneResult(SourceOf(t), options[t])
    /\ \A path \in AllPaths :
          /\ shared[path].count = Cardinality(Holders(path))
          /\ Holders(path) # {} => shared[path].ds.kind = "raster"
    /\ \A t \in Threads : HoldsDataset(t) => opened[t] = shared[dataset[t]].ds
    /\ AllEnded => \A path \in AllPaths : shared[path].count = 0

\* a read of the file has returned its image and given its reference back
\* while another read of the same file still holds the shared handle
C7_Witness ==
    \E t1, t2 \in Threads :
        /\ t1 # t2
        /\ entry[t1] = "path" /\ filename[t1] = TifPath
        /\ Returned(t1) /\ ~result[t1].null
        /\ entry[t2] = "path" /\ pc[t2] = "copy" /\ dataset[t2] = TifPath
        /\ shared[TifPath].count = 1

\* Vocabulary of the extension property: the tokens of a list are its
\* maximal runs of characters other than space and slash
IsDelimiter(c) == c \in {" ", "/"}
TokenStarts(str) ==
    { k \in 1..Len(str) : ~IsDelimiter(str[k]) /\ (k = 1 \/ IsDelimiter(str[k - 1])) }
TokenEnd(str, k) ==
    CHOOSE e \in k..Len(str) :
        /\ \A j \in k..e : ~IsDelimiter(str[j])
        /\ (e = Len(str) \/ IsDelimiter(str[e + 1]))
Tokens(str) == { SubSeq(str, k, TokenEnd(str, k)) : k \in TokenStarts(str) }
WithoutLeadingDot(tok) == IF tok[1] = "." THEN Tail(tok) ELSE tok
DeclaredLists ==
    { drivers[i].extensions_meta.chars :
        i \in { j \in DOMAIN drivers :
                  drivers[j].raster_meta /\ ~drivers[j].extensions_meta.null } }
ExpectedKeys ==
    UNION { { <<".">> \o WithoutLeadingDot(tok) : tok \in Tokens(str) }
            : str \in DeclaredLists }

\* C9: getFeatures records exactly one key per token of every raster
\* driver's extension list, "." followed by the token without its leading
\* dot, mapped to the read-by-filename flag; no key is the bare ".", none
\* holds a space or a slash, and every iteration of the tokenising loop
\* moves on in the string.
C9_ExtensionKeys ==
    /\ <<".">> \notin DOMAIN extensionFeatureMap
    /\ \A key \in DOMAIN extensionFeatureMap :
          /\ extensionFeatureMap[key] = "READ_FILENAME"
          /\ \A k \in DOMAIN key : ~IsDelimiter(key[k])
    /\ fpc = "token" => start_pos <= Len(extensions)
    /\ fpc = "done" => DOMAIN extensionFeatureMap = ExpectedKeys

\* C10: the stream-based read always ends, whatever the stream.
C10_StreamReadTerminates == <>(spc = "done")

====
